---- MODULE Spec2Model ----
(***************************************************************************)
(* Transport / dispatch core of internalblue: the raw-HCI core (HCICore,   *)
(* hcicore.py) and the loopback-stream-bridge core (macOSCore,             *)
(* macoscore.py).  One state machine, the core in use is fixed in Init.    *)
(***************************************************************************)
EXTENDS Integers, Sequences, FiniteSets, TLC

(***************************************************************************)
(* Bounds of the model.                                                    *)
(***************************************************************************)
\* flag bitmaps 0 .. 2^MaxFlagBits - 1 are enumerated (the table has 10 bits)
MaxFlagBits == 11
\* longest packet a read returns, in bytes (recv(1024) in the code)
MaxPktLen == 2
\* number of reads that return data during one session of the raw-HCI core
MaxReads == 3
\* number of connections the external mechanism makes to the listener of the
\* stream-bridge core during one session
MaxAccepts == 1
\* number of commands submitted to the send queue during one session
MaxSends == 1
\* number of extra, explicit calls of _writeBTSnoopHeader
MaxHeaderCalls == 2
\* device ids -2 .. MaxDevId are passed to bringHciDeviceUp (16 is the last
\* id it accepts)
MaxDevId == 18
\* number of explicit calls of bringHciDeviceUp
MaxUpCalls == 2
\* number of calls of _teardownSockets
MaxTeardowns == 2
\* number of callers that may be inside a send at the same time
MaxCallers == 2
\* threads that call _writeBTSnoopHeader at the same time
MaxHeaderWriters == 2

(***************************************************************************)
(* Small helpers.                                                          *)
(***************************************************************************)
None == "None"

RECURSIVE Pow2(_)
Pow2(n) == IF n = 0 THEN 1 ELSE 2 * Pow2(n - 1)

RECURSIVE Reverse(_)
Reverse(s) == IF Len(s) = 0 THEN s ELSE Reverse(Tail(s)) \o <<Head(s)>>

Min(a, b) == IF a < b THEN a ELSE b

RECURSIVE Join(_, _)
\* sep.join(strs) of Python: the strings of strs separated by sep
Join(sep, strs) ==
    IF Len(strs) = 0 THEN ""
    ELSE IF Len(strs) = 1 THEN strs[1]
    ELSE strs[1] \o sep \o Join(sep, Tail(strs))

(***************************************************************************)
(* utils.packing and struct.pack: integers to and from bytes.              *)
(***************************************************************************)
\* p32(n, endian="big") and struct.pack(">I", n)
p32be(n) == << (n \div 16777216) % 256, (n \div 65536) % 256,
               (n \div 256) % 256, n % 256 >>

\* p32(n), little endian
p32(n) == Reverse(p32be(n))

\* u32(b), little endian
u32(b) == b[1] + 256 * b[2] + 65536 * b[3] + 16777216 * b[4]

\* struct.unpack(">I", b), what a reader of the capture log does
u32be(b) == u32(Reverse(b))

RECURSIVE AddBE(_, _)
\* big-endian byte string b plus the natural n, modulo 2^(8*Len(b))
AddBE(b, n) ==
    IF Len(b) = 0 THEN b
    ELSE LET last == b[Len(b)] + n
         IN  AddBE(SubSeq(b, 1, Len(b) - 1), last \div 256) \o <<last % 256>>

(***************************************************************************)
(* Device Enumerator: the flag bitmap of getHciDeviceList.                 *)
(***************************************************************************)
FlagNames == << "UP", "INIT", "RUNNING", "PSCAN", "ISCAN",
                "AUTH", "ENCRYPT", "INQUIRY", "RAW", "RESET" >>

RECURSIVE bin(_)
\* bin(n)[2:] of Python: the binary digits of n, most significant first
bin(n) == IF n < 2 THEN << IF n = 1 THEN "1" ELSE "0" >>
          ELSE bin(n \div 2) \o << IF n % 2 = 1 THEN "1" ELSE "0" >>

\* zip(a, b): pairs up to the shorter of the two
zip(a, b) == [i \in 1..Min(Len(a), Len(b)) |-> <<a[i], b[i]>>]

RECURSIVE NamesOfSetFlags(_)
\* [name for flag, name in pairs if flag == "1"]
NamesOfSetFlags(pairs) ==
    IF Len(pairs) = 0 THEN <<>>
    ELSE (IF Head(pairs)[1] = "1" THEN <<Head(pairs)[2]>> ELSE <<>>)
         \o NamesOfSetFlags(Tail(pairs))

\* the flags text when the digits of bin() are not reversed
dev_flags_str_MsbFirst(dev_flags) ==
    IF dev_flags = 0 THEN "DOWN"
    ELSE Join(" ", NamesOfSetFlags(zip(bin(dev_flags), FlagNames)))

dev_flags_str(dev_flags) ==
    IF dev_flags = 0 THEN "DOWN"
    ELSE Join(" ", NamesOfSetFlags(zip(Reverse(bin(dev_flags)), FlagNames)))

\* one entry of the list getHciDeviceList returns, for kernel device d
DeviceEntry(d) ==
    [ dev_id        |-> d.dev_id,
      dev_name      |-> d.dev_name,
      dev_flags     |-> u32(d.flags_raw),
      dev_flags_str |-> dev_flags_str(u32(d.flags_raw)) ]

\* getHciDeviceList: [] when the Bluetooth socket cannot be opened, else one
\* entry per device the kernel reports (kdevs: the answers of the ioctls)
getHciDeviceList(sock_ok, kdevs) ==
    IF ~sock_ok THEN <<>>
    ELSE [i \in 1..Len(kdevs) |-> DeviceEntry(kdevs[i])]

(***************************************************************************)
(* Binary Record Codec: the btsnoop capture log.                           *)
(***************************************************************************)
\* b"btsnoop\x00" + p32(1, endian="big") + p32(1002, endian="big")
btsnoop_hdr == <<98, 116, 115, 110, 111, 111, 112, 0>> \o p32be(1) \o p32be(1002)

\* 0x00E03AB44A676000, microseconds between 0 AD and 2000 AD, as 8 bytes
time_betw_0_and_2000_ad == <<0, 224, 58, 180, 74, 103, 96, 0>>

\* _btsnoop_pack_time followed by struct.pack(">q", ...): time is counted in
\* microseconds since 2000-01-01
btsnoop_pack_time(time) == AddBE(time_betw_0_and_2000_ad, time)

\* the record header with its four lengths and counters in little-endian order
btsnoop_record_hdr_LittleEndian(orig_len, inc_len, flags, drops, time) ==
    p32(orig_len) \o p32(inc_len) \o p32(flags) \o p32(drops)
    \o btsnoop_pack_time(time)

\* struct.pack(">IIIIq", orig_len, inc_len, flags, drops, packed time)
btsnoop_record_hdr(orig_len, inc_len, flags, drops, time) ==
    p32be(orig_len) \o p32be(inc_len) \o p32be(flags) \o p32be(drops)
    \o btsnoop_pack_time(time)

(***************************************************************************)
(* The packets, records and subscriptions of the model.                    *)
(***************************************************************************)
\* H4 type bytes seen on the wire: 0x04 HCI event, 0x02 ACL data
PktBytes == {4, 2}

\* a packet of n bytes: the H4 type, then bytes 0x0e
Packet(type, n) == [i \in 1..n |-> IF i = 1 THEN type ELSE 14]

\* what one read of the inbound channel may return: nothing, a one-byte ACL
\* packet, or an event of the longest length
Packets == { <<>>, Packet(2, 1), Packet(4, MaxPktLen) }

\* hci.parse_hci_packet: the decoded packet value, H4 type and the rest
parse_hci_packet(data) ==
    [ h4type |-> IF Len(data) = 0 THEN 0 ELSE data[1],
      data   |-> IF Len(data) = 0 THEN <<>> ELSE Tail(data) ]

\* the Record of the raw-HCI core (hcicore.py, lines 281-298)
HciRecord(data, time) ==
    [ hcipkt   |-> parse_hci_packet(data),
      orig_len |-> Len(data),
      inc_len  |-> Len(data),
      flags    |-> 0,
      drops    |-> 0,
      time     |-> time ]

\* the Record of the stream-bridge core (macoscore.py, line 135)
MacRecord(data) ==
    [ hcipkt   |-> parse_hci_packet(data),
      orig_len |-> 0,
      inc_len  |-> 0,
      flags    |-> 0,
      drops    |-> 0,
      time     |-> 0 ]

\* the correlation predicate of a command: the Command Complete event
\* (0x0e) that carries the command's opcode
IsReplyTo(data, rec) ==
    /\ rec.hcipkt.h4type = 4
    /\ Len(rec.hcipkt.data) >= 5
    /\ rec.hcipkt.data[1] = 14
    /\ rec.hcipkt.data[4] = data[1]
    /\ rec.hcipkt.data[5] = data[2]

\* filter functions subscribers register: events only; the reply to the
\* command of opcode 0x1001; the reply to the command of opcode 0x0c03
FilterFunctions == {"is_event", "is_cc_1001", "is_cc_0c03"}

\* filter_function(record)
ApplyFilter(f, rec) ==
    CASE f = "is_event"   -> rec.hcipkt.h4type = 4
      [] f = "is_cc_1001" -> IsReplyTo(<<1, 16>>, rec)
      [] f = "is_cc_0c03" -> IsReplyTo(<<3, 12>>, rec)
      [] OTHER -> FALSE

\* the filter a caller passes along with command data
FilterFor(data) == IF data[1] = 1 /\ data[2] = 16 THEN "is_cc_1001" ELSE "is_cc_0c03"

\* the queues of the consumers and the reply queues of the Send Engine
ConsumerQueues == { <<"Q", 1>>, <<"Q", 2>> }
ReplyQueues == { <<"R", k>> : k \in 1..(MaxSends + MaxCallers - 1) }
QueueIds == ConsumerQueues \cup ReplyQueues

\* maxsize of each queue: the Pending Response Slot is Queue.Queue(1)
Capacity(q) == IF q = <<"Q", 2>> THEN 2 ELSE 1

\* a queue subscription, the (queue, filter_function) tuple of the registry
Sub(q, f) == [queue |-> q, filter |-> f]

\* the registries a session starts with (consumers register before connect)
InitialRegistries ==
    { << Sub(<<"Q", 1>>, None), Sub(<<"Q", 2>>, "is_event") >> }

\* callbacks: one that returns and one that raises
InitialCallbacks ==
    { <<"cb_ok">>, <<"cb_raise", "cb_ok">> }

\* what the kernel answers to HCIGETDEVLIST / HCIGETDEVINFO
KDev(id, name, flags) == [dev_id |-> id, dev_name |-> name, flags_raw |-> p32(flags)]
KernelDevLists ==
    { <<>>, << KDev(0, "hci0", 0) >>, << KDev(0, "hci0", 5) >>,
      << KDev(1, "hci1", 5) >> }

(***************************************************************************)
(* State.                                                                  *)
(***************************************************************************)
VARIABLES
    core,                     \* "hci" (HCICore) or "macos" (macOSCore)
    interface,                \* self.interface
    user_channel,             \* self.user_channel
    write_btsnooplog,         \* self.write_btsnooplog
    connect_ret,              \* result of local_connect, None before the call
    exit_requested,           \* self.exit_requested, the shutdown flag
    s_snoop, s_inject,        \* the endpoints: None or a socket of socks
    socks,                    \* state of every socket object
    btsnooplog_file,          \* bytes of the capture log
    registeredHciRecvQueues,  \* list of queue subscriptions
    registeredHciCallbacks,   \* list of callbacks
    queues,                   \* contents of every queue
    recv_pc,                  \* position of the receive thread
    record_data, record,      \* locals of the receive thread (<<>>: unset)
    qi, ci,                   \* list iterators of the two fan-out loops
    now,                      \* the clock, microseconds since 2000-01-01
    reads,                    \* reads that returned data so far
    device_list,              \* last result of getHciDeviceList
    sendQueue,                \* self.sendQueue, the outbound tasks
    injected,                 \* bytes written to s_inject, not yet read
    send_pc,                  \* position of the send thread
    task, recvQueue,          \* locals of the send thread
    calls,                    \* the callers of sendH4 / of the send queue
    rxlog,                    \* history: every Record built, in order
    putlog,                   \* history: per queue, the Records enqueued
    droplog,                  \* history: per queue, the Records dropped
    cblog,                    \* history: callback invocations
    hdr_calls,                \* explicit calls of _writeBTSnoopHeader so far
    up_calls,                 \* explicit calls of bringHciDeviceUp: what each
                              \* was given, returned and asked of the OS
    tdlog,                    \* calls of _teardownSockets: what each closed
    in_recv,                  \* the receive thread is inside a recv that it
                              \* entered before the endpoints were torn down
    shutdown_at,              \* history: Records built when shutdown was
                              \* requested (<<>>: not requested)
    hdr_writers,              \* position of every thread that is inside
                              \* _writeBTSnoopHeader on its own
    pass_subs                 \* history: the queues registered ever since
                              \* the queue loop in progress began

cfgVars  == <<core, interface, user_channel, write_btsnooplog>>
sockVars == <<s_snoop, s_inject, socks>>
regVars  == <<registeredHciRecvQueues, registeredHciCallbacks>>
recvVars == <<recv_pc, record_data, record, qi, ci, now, reads>>
sendVars == <<sendQueue, injected, send_pc, task, recvQueue, calls>>
histVars == <<rxlog, putlog, droplog, cblog>>
opVars   == <<up_calls, tdlog, in_recv, shutdown_at, hdr_writers, pass_subs>>

vars == <<cfgVars, connect_ret, exit_requested, sockVars, btsnooplog_file,
          regVars, queues, recvVars, device_list, sendVars, histVars,
          hdr_calls, opVars>>

SockIds == {"hci", "listener", "client"}

HeaderWriters == 1..MaxHeaderWriters

\* the state right after construction, for the given configuration
InitWith(c, ifc, uc, wr, regs, cbs) ==
    /\ core = c
    /\ interface = ifc
    /\ user_channel = uc
    /\ write_btsnooplog = wr
    /\ connect_ret = None
    /\ exit_requested = FALSE
    /\ s_snoop = None
    /\ s_inject = None
    /\ socks = [s \in SockIds |-> "absent"]
    /\ btsnooplog_file = <<>>
    /\ registeredHciRecvQueues = regs
    /\ registeredHciCallbacks = cbs
    /\ queues = [q \in QueueIds |-> <<>>]
    /\ recv_pc = "idle"
    /\ record_data = <<>>
    /\ record = <<>>
    /\ qi = 0
    /\ ci = 0
    /\ now = 0
    /\ reads = 0
    /\ device_list = <<>>
    /\ sendQueue = <<>>
    /\ injected = <<>>
    /\ send_pc = "idle"
    /\ task = <<>>
    /\ recvQueue = <<>>
    /\ calls = <<>>
    /\ rxlog = <<>>
    /\ putlog = [q \in QueueIds |-> <<>>]
    /\ droplog = [q \in QueueIds |-> {}]
    /\ cblog = <<>>
    /\ hdr_calls = 0
    /\ up_calls = <<>>
    /\ tdlog = <<>>
    /\ in_recv = FALSE
    /\ shutdown_at = <<>>
    /\ hdr_writers = [w \in HeaderWriters |-> "idle"]
    /\ pass_subs = {}

InitHci ==
    \E ifc \in {None, "hci0"}, uc \in BOOLEAN, wr \in BOOLEAN,
       regs \in InitialRegistries, cbs \in InitialCallbacks :
        InitWith("hci", ifc, uc, wr, regs, cbs)

(***************************************************************************)
(* Capture Log Writer.                                                     *)
(***************************************************************************)
\* the header write without the check of the file position
writeBTSnoopHeader_NoEmptyCheck(wr, file) ==
    IF wr THEN file \o btsnoop_hdr ELSE file

\* the file after _writeBTSnoopHeader: the header goes in only when logging
\* is enabled and the position tell() is 0
writeBTSnoopHeader(wr, file) ==
    IF wr /\ Len(file) = 0 THEN file \o btsnoop_hdr ELSE file

\* an explicit call of _writeBTSnoopHeader, at any time
WriteBTSnoopHeader ==
    /\ core = "hci"
    /\ hdr_calls < MaxHeaderCalls
    /\ hdr_calls' = hdr_calls + 1
    /\ btsnooplog_file' = writeBTSnoopHeader(write_btsnooplog, btsnooplog_file)
    /\ UNCHANGED <<cfgVars, opVars, connect_ret, exit_requested, sockVars, regVars,
                   queues, recvVars, device_list, sendVars, histVars>>

\* _writeBTSnoopHeader in a thread of its own, first half: the condition
\* `self.write_btsnooplog and self.btsnooplog_file.tell() == 0` is evaluated,
\* the lock is not held
HeaderWriterCheck ==
    /\ core = "hci"
    /\ \E w \in HeaderWriters :
        /\ hdr_writers[w] = "idle"
        /\ hdr_writers' = [hdr_writers EXCEPT ![w] =
               IF write_btsnooplog /\ Len(btsnooplog_file) = 0
               THEN "write" ELSE "done"]
    /\ UNCHANGED <<cfgVars, up_calls, tdlog, in_recv, shutdown_at, pass_subs,
                   connect_ret,
                   exit_requested, sockVars, btsnooplog_file, regVars, queues,
                   recvVars, device_list, sendVars, histVars, hdr_calls>>

\* second half: with self.btsnooplog_file_lock: write(btsnoop_hdr); flush()
HeaderWriterWrite ==
    /\ core = "hci"
    /\ \E w \in HeaderWriters :
        /\ hdr_writers[w] = "write"
        /\ hdr_writers' = [hdr_writers EXCEPT ![w] = "done"]
    /\ btsnooplog_file' = btsnooplog_file \o btsnoop_hdr
    /\ UNCHANGED <<cfgVars, up_calls, tdlog, in_recv, shutdown_at, pass_subs,
                   connect_ret,
                   exit_requested, sockVars, regVars, queues, recvVars,
                   device_list, sendVars, histVars, hdr_calls>>

(***************************************************************************)
(* Transport Establisher of the raw-HCI core.                              *)
(***************************************************************************)
\* bringHciDeviceUp without the check of the id
bringHciDeviceUp_NoValidation(dev_id, ioctl_ok) ==
    [ ret |-> ioctl_ok, os |-> <<"socket", "ioctl HCIDEVUP", "close">> ]

\* bringHciDeviceUp: the id is validated; then a Bluetooth socket is opened,
\* the one ioctl decides the result, and the socket is closed either way
\* (ret: the value returned, os: what was asked of the OS, in order)
bringHciDeviceUp(dev_id, ioctl_ok) ==
    IF dev_id < 0 \/ dev_id > 16
    THEN [ ret |-> FALSE, os |-> <<>> ]
    ELSE [ ret |-> ioctl_ok, os |-> <<"socket", "ioctl HCIDEVUP", "close">> ]

\* an explicit call of bringHciDeviceUp, with any id and any answer of the OS
BringHciDeviceUp ==
    /\ core = "hci"
    /\ Len(up_calls) < MaxUpCalls
    /\ \E dev_id \in (-2)..MaxDevId, ioctl_ok \in BOOLEAN :
          up_calls' = Append(up_calls,
              [ dev_id |-> dev_id, ioctl_ok |-> ioctl_ok,
                ret |-> bringHciDeviceUp(dev_id, ioctl_ok).ret,
                os  |-> bringHciDeviceUp(dev_id, ioctl_ok).os ])
    /\ UNCHANGED <<cfgVars, connect_ret, exit_requested, sockVars,
                   btsnooplog_file, regVars, queues, recvVars, device_list,
                   sendVars, histVars, hdr_calls, tdlog, in_recv, shutdown_at, hdr_writers, pass_subs>>

\* _setupSockets: the raw HCI socket of the named interface
setupSockets(sock_ok, kdevs, ioctl_ok, bind_ok) ==
    LET device == SelectSeq(getHciDeviceList(sock_ok, kdevs),
                            LAMBDA dev : dev.dev_name = interface)
    IN  IF Len(device) = 0
        THEN /\ connect_ret' = "False"
             /\ UNCHANGED <<sockVars, btsnooplog_file>>
        ELSE IF /\ device[1].dev_flags = 0
                /\ ~bringHciDeviceUp(device[1].dev_id, ioctl_ok).ret
        THEN /\ connect_ret' = "False"
             /\ UNCHANGED <<sockVars, btsnooplog_file>>
        ELSE IF ~bind_ok
        THEN \* bind raises: s_snoop already holds the unbound socket
             /\ connect_ret' = "raised"
             /\ s_snoop' = "hci"
             /\ socks' = [socks EXCEPT !["hci"] = "unbound"]
             /\ UNCHANGED <<s_inject, btsnooplog_file>>
        ELSE /\ connect_ret' = "True"
             /\ s_snoop' = "hci"
             /\ s_inject' = "hci"
             /\ socks' = [socks EXCEPT !["hci"] = "bound"]
             /\ btsnooplog_file' =
                    writeBTSnoopHeader(write_btsnooplog, btsnooplog_file)

\* _setupSocketsUserChannel: libc socket() and bind() called directly; their
\* failures are logged only, socket.fromfd raises on a bad descriptor
setupSocketsUserChannel(socket_ok, bind_ok) ==
    IF ~socket_ok
    THEN /\ connect_ret' = "raised"
         /\ UNCHANGED <<sockVars, btsnooplog_file>>
    ELSE /\ connect_ret' = "True"
         /\ s_snoop' = "hci"
         /\ s_inject' = "hci"
         /\ socks' = [socks EXCEPT !["hci"] = IF bind_ok THEN "bound" ELSE "unbound"]
         /\ btsnooplog_file' =
                writeBTSnoopHeader(write_btsnooplog, btsnooplog_file)

\* HCICore.local_connect
hci_local_connect(sock_ok, kdevs, ioctl_ok, socket_ok, bind_ok) ==
    IF interface = None
    THEN /\ connect_ret' = "False"
         /\ UNCHANGED <<sockVars, btsnooplog_file>>
    ELSE IF user_channel
    THEN setupSocketsUserChannel(socket_ok, bind_ok)
    ELSE setupSockets(sock_ok, kdevs, ioctl_ok, bind_ok)

\* connect of the raw-HCI core: local_connect, and on success the receive
\* thread is started
HciConnect ==
    /\ core = "hci"
    /\ connect_ret = None
    /\ \E sock_ok \in BOOLEAN, kdevs \in KernelDevLists, ioctl_ok \in BOOLEAN,
          socket_ok \in BOOLEAN, bind_ok \in BOOLEAN :
            hci_local_connect(sock_ok, kdevs, ioctl_ok, socket_ok, bind_ok)
    /\ recv_pc' = IF connect_ret' = "True" THEN "loop" ELSE recv_pc
    /\ UNCHANGED <<cfgVars, opVars, exit_requested, regVars, queues, record_data,
                   record, qi, ci, now, reads, device_list, sendVars,
                   histVars, hdr_calls>>

(***************************************************************************)
(* Teardown of the raw-HCI core.                                           *)
(***************************************************************************)
\* when the endpoints are torn down while the receive thread is at its read,
\* the thread may be inside recv already, or not have entered it yet
InRecvAfterTeardown ==
    IF recv_pc = "read" /\ s_snoop # None THEN BOOLEAN ELSE {in_recv}

\* a teardown that closes the socket on every call
hci_teardownSockets_NoNoneCheck ==
    /\ socks' = [socks EXCEPT !["hci"] = "closed"]
    /\ tdlog' = Append(tdlog, [closed |-> <<"hci">>,
                               handle |-> connect_ret = "True",
                               pc |-> recv_pc, flag |-> exit_requested])
    /\ s_inject' = None
    /\ s_snoop' = None

\* HCICore._teardownSockets: if s_inject is not None it is closed and both
\* fields are cleared (closed: what this call closed; handle: whether
\* local_connect had returned a session; pc, flag: where the receive thread
\* was and what the shutdown flag was when the call was made)
hci_teardownSockets ==
    IF s_inject # None
    THEN /\ socks' = [socks EXCEPT ![s_inject] = "closed"]
         /\ tdlog' = Append(tdlog, [closed |-> <<s_inject>>,
                                    handle |-> connect_ret = "True",
                                    pc |-> recv_pc, flag |-> exit_requested])
         /\ s_inject' = None
         /\ s_snoop' = None
    ELSE /\ tdlog' = Append(tdlog, [closed |-> <<>>,
                                    handle |-> connect_ret = "True",
                                    pc |-> recv_pc, flag |-> exit_requested])
         /\ UNCHANGED sockVars

\* _teardownSockets called by another thread, at any time
HciTeardown ==
    /\ core = "hci"
    /\ Len(tdlog) < MaxTeardowns
    /\ hci_teardownSockets
    /\ in_recv' \in InRecvAfterTeardown
    /\ UNCHANGED <<cfgVars, connect_ret, exit_requested, btsnooplog_file,
                   regVars, queues, recvVars, device_list, sendVars, histVars,
                   hdr_calls, up_calls, shutdown_at, hdr_writers, pass_subs>>

(***************************************************************************)
(* Receive Engine of the raw-HCI core: HCICore._recvThreadFunc.            *)
(***************************************************************************)
\* self.s_snoop.recv / accept can be entered: the field holds a socket; or
\* the thread is inside the call already
CanRead == s_snoop # None \/ in_recv

\* while not self.exit_requested
HciRecvLoop ==
    /\ core = "hci"
    /\ recv_pc = "loop"
    /\ recv_pc' = IF exit_requested THEN "terminated" ELSE "read"
    /\ UNCHANGED <<cfgVars, opVars, connect_ret, exit_requested, sockVars,
                   btsnooplog_file, regVars, queues, record_data, record, qi,
                   ci, now, reads, device_list, sendVars, histVars, hdr_calls>>

\* recv raises socket.timeout: continue, the loop condition is read again
\* and recv is entered again
HciRecvTimeout ==
    /\ core = "hci"
    /\ recv_pc = "read"
    /\ CanRead
    /\ in_recv' = FALSE
    /\ recv_pc' = IF exit_requested THEN "terminated" ELSE "read"
    /\ UNCHANGED <<cfgVars, up_calls, tdlog, shutdown_at, hdr_writers, pass_subs, connect_ret, exit_requested, sockVars,
                   btsnooplog_file, regVars, queues, record_data, record, qi,
                   ci, now, reads, device_list, sendVars, histVars, hdr_calls>>

\* an error handler that tries the read again
HciRecvError_Retries ==
    /\ core = "hci"
    /\ recv_pc = "read"
    /\ in_recv' = FALSE
    /\ recv_pc' = "loop"
    /\ UNCHANGED <<cfgVars, up_calls, tdlog, shutdown_at, hdr_writers, pass_subs, connect_ret,
                   exit_requested, sockVars, btsnooplog_file, regVars,
                   queues, record_data, record, qi, ci, now, reads,
                   device_list, sendVars, histVars, hdr_calls>>

\* recv raises anything else: exit_requested is set, continue
HciRecvError ==
    /\ core = "hci"
    /\ recv_pc = "read"
    /\ in_recv' = FALSE
    /\ exit_requested' = TRUE
    /\ recv_pc' = "loop"
    /\ UNCHANGED <<cfgVars, up_calls, tdlog, shutdown_at, hdr_writers, pass_subs, connect_ret, sockVars, btsnooplog_file, regVars,
                   queues, record_data, record, qi, ci, now, reads,
                   device_list, sendVars, histVars, hdr_calls>>

\* recv returns data: an empty read is skipped, otherwise the record is built
HciRecvData ==
    /\ core = "hci"
    /\ recv_pc = "read"
    /\ CanRead
    /\ in_recv' = FALSE
    /\ reads < MaxReads
    /\ \E data \in Packets :
        /\ record_data' = data
        /\ reads' = reads + 1
        /\ now' = now + 1
        /\ IF Len(data) = 0
           THEN /\ recv_pc' = "loop"
                /\ UNCHANGED <<record, rxlog>>
           ELSE /\ record' = << HciRecord(data, now') >>
                /\ rxlog' = Append(rxlog, [data |-> data, record |-> HciRecord(data, now'),
                                         waiting |-> {}])
                /\ recv_pc' = "log"
    /\ UNCHANGED <<cfgVars, up_calls, tdlog, shutdown_at, hdr_writers, pass_subs, connect_ret, exit_requested, sockVars,
                   btsnooplog_file, regVars, queues, qi, ci, device_list,
                   sendVars, putlog, droplog, cblog, hdr_calls>>

\* registerHciRecvQueue(queue, filter_function)
registerHciRecvQueue(regs, q, f) == Append(regs, Sub(q, f))

\* unregisterHciRecvQueue(queue)
unregisterHciRecvQueue(regs, q) == SelectSeq(regs, LAMBDA e : e.queue # q)

\* the queues that have a subscription in the registry
RegisteredQueues ==
    { registeredHciRecvQueues[i].queue : i \in 1..Len(registeredHciRecvQueues) }

\* the frame of the record in hand: 24-byte record header, then the raw bytes
HciFrame(rec, data) ==
    btsnoop_record_hdr(rec.orig_len, rec.inc_len, rec.flags, rec.drops, rec.time)
    \o data

\* a receive loop that goes to the fan-out without writing the frame
HciRecvLog_NoWrite ==
    /\ core = "hci"
    /\ recv_pc = "log"
    /\ recv_pc' = "fanout"
    /\ qi' = 1
    /\ pass_subs' = RegisteredQueues
    /\ UNCHANGED <<cfgVars, up_calls, tdlog, in_recv, shutdown_at, hdr_writers,
                   connect_ret, exit_requested, sockVars, regVars,
                   btsnooplog_file, queues, record_data, record, ci, now,
                   reads, device_list, sendVars, histVars, hdr_calls>>

\* if self.write_btsnooplog: header and data are written and flushed
HciRecvLog ==
    /\ core = "hci"
    /\ recv_pc = "log"
    /\ btsnooplog_file' =
          IF write_btsnooplog
          THEN btsnooplog_file \o HciFrame(record[1], record_data)
          ELSE btsnooplog_file
    /\ recv_pc' = "fanout"
    /\ qi' = 1
    /\ pass_subs' = RegisteredQueues
    /\ UNCHANGED <<cfgVars, up_calls, tdlog, in_recv, shutdown_at, hdr_writers,
                   connect_ret, exit_requested, sockVars, regVars,
                   queues, record_data, record, ci, now, reads, device_list,
                   sendVars, histVars, hdr_calls>>

\* a put that makes room by discarding the oldest Record of a full queue
PutNoWait_DropOldest(q) ==
    IF Len(queues[q]) < Capacity(q)
    THEN /\ queues' = [queues EXCEPT ![q] = Append(@, record[1])]
         /\ putlog' = [putlog EXCEPT ![q] = Append(@, Len(rxlog))]
         /\ UNCHANGED droplog
    ELSE /\ queues' = [queues EXCEPT ![q] = Append(Tail(@), record[1])]
         /\ droplog' = [droplog EXCEPT ![q] = @ \cup {Len(rxlog)}]
         /\ UNCHANGED putlog

\* a put that lets the newest Record overtake the ones that wait
PutNoWait_AtFront(q) ==
    IF Len(queues[q]) < Capacity(q)
    THEN /\ queues' = [queues EXCEPT ![q] = <<record[1]>> \o @]
         /\ putlog' = [putlog EXCEPT ![q] = Append(@, Len(rxlog))]
         /\ UNCHANGED droplog
    ELSE /\ droplog' = [droplog EXCEPT ![q] = @ \cup {Len(rxlog)}]
         /\ UNCHANGED <<queues, putlog>>

\* queue.put(record, block=False): enqueued, or Full is caught and logged
PutNoWait(q) ==
    IF Len(queues[q]) < Capacity(q)
    THEN /\ queues' = [queues EXCEPT ![q] = Append(@, record[1])]
         /\ putlog' = [putlog EXCEPT ![q] = Append(@, Len(rxlog))]
         /\ UNCHANGED droplog
    ELSE /\ droplog' = [droplog EXCEPT ![q] = @ \cup {Len(rxlog)}]
         /\ UNCHANGED <<queues, putlog>>

\* a fan-out that does not consult the filter_function
HciOffers_IgnoresFilter(sub, rec) == TRUE

\* whether the raw-HCI fan-out offers the record to subscription sub
HciOffers(sub, rec) == sub.filter = None \/ ApplyFilter(sub.filter, rec)

\* one step of: for queue, filter_function in self.registeredHciRecvQueues
HciRecvFanout ==
    /\ core = "hci"
    /\ recv_pc = "fanout"
    /\ IF qi > Len(registeredHciRecvQueues)
       THEN /\ recv_pc' = "callbacks"
            /\ ci' = 1
            /\ pass_subs' = {}
            /\ UNCHANGED <<qi, queues, putlog, droplog>>
       ELSE /\ IF HciOffers(registeredHciRecvQueues[qi], record[1])
               THEN PutNoWait(registeredHciRecvQueues[qi].queue)
               ELSE UNCHANGED <<queues, putlog, droplog>>
            /\ qi' = qi + 1
            /\ UNCHANGED <<recv_pc, ci, pass_subs>>
    /\ UNCHANGED <<cfgVars, up_calls, tdlog, in_recv, shutdown_at, hdr_writers,
                   connect_ret, exit_requested, sockVars,
                   btsnooplog_file, regVars, record_data, record, now, reads,
                   device_list, sendVars, rxlog, cblog, hdr_calls>>

\* one step of: for callback in self.registeredHciCallbacks: callback(record)
\* an exception of the callback is not caught and ends the thread
CallbackStep ==
    IF ci > Len(registeredHciCallbacks)
    THEN /\ recv_pc' = "loop"
         /\ UNCHANGED <<ci, cblog>>
    ELSE /\ cblog' = Append(cblog, <<ci, Len(rxlog)>>)
         /\ IF registeredHciCallbacks[ci] = "cb_raise"
            THEN recv_pc' = "crashed" /\ UNCHANGED ci
            ELSE ci' = ci + 1 /\ UNCHANGED recv_pc

HciRecvCallback ==
    /\ core = "hci"
    /\ recv_pc = "callbacks"
    /\ CallbackStep
    /\ UNCHANGED <<cfgVars, opVars, connect_ret, exit_requested, sockVars,
                   btsnooplog_file, regVars, queues, record_data, record, qi,
                   now, reads, device_list, sendVars, rxlog, putlog, droplog,
                   hdr_calls>>

\* a consumer of the raw-HCI core takes the oldest Record out of its queue
\* (the subscriber of the stream-bridge core never drains its queue)
ConsumerGet ==
    /\ core = "hci"
    /\ \E q \in ConsumerQueues :
        /\ Len(queues[q]) > 0
        /\ queues' = [queues EXCEPT ![q] = Tail(@)]
    /\ UNCHANGED <<cfgVars, opVars, connect_ret, exit_requested, sockVars,
                   btsnooplog_file, regVars, recvVars, device_list, sendVars,
                   histVars, hdr_calls>>

\* the subscription a consumer registers for its queue
ConsumerSub(q) == Sub(q, IF q = <<"Q", 1>> THEN None ELSE "is_event")

\* a consumer thread calls registerHciRecvQueue(queue, filter_function)
RegisterConsumer ==
    /\ core = "hci"
    /\ \E q \in ConsumerQueues \ RegisteredQueues :
          registeredHciRecvQueues' =
              registerHciRecvQueue(registeredHciRecvQueues, q,
                                   ConsumerSub(q).filter)
    /\ UNCHANGED <<cfgVars, opVars, connect_ret, exit_requested, sockVars,
                   btsnooplog_file, registeredHciCallbacks, queues, recvVars,
                   device_list, sendVars, histVars, hdr_calls>>

\* a consumer thread calls unregisterHciRecvQueue(queue)
UnregisterConsumer ==
    /\ core = "hci"
    /\ \E q \in ConsumerQueues \cap RegisteredQueues :
        /\ registeredHciRecvQueues' =
               unregisterHciRecvQueue(registeredHciRecvQueues, q)
        /\ pass_subs' = pass_subs \ {q}
    /\ UNCHANGED <<cfgVars, up_calls, tdlog, in_recv, shutdown_at, hdr_writers,
                   connect_ret, exit_requested, sockVars, btsnooplog_file,
                   registeredHciCallbacks, queues, recvVars, device_list,
                   sendVars, histVars, hdr_calls>>

NextHci ==
    \/ WriteBTSnoopHeader
    \/ HciConnect
    \/ HciRecvLoop
    \/ HciRecvTimeout
    \/ HciRecvError
    \/ HciRecvData
    \/ HciRecvLog
    \/ HciRecvFanout
    \/ HciRecvCallback
    \/ ConsumerGet

SpecHci == InitHci /\ [][NextHci]_vars

(***************************************************************************)
(* The loopback-stream-bridge core: macOSCore.                             *)
(***************************************************************************)
\* queue_size, the maxsize of self.sendQueue
queue_size == 1000

\* the frame _sendThreadFunc writes to s_inject for every task:
\* "040E0C01011000066724060f009641".decode("hex")
InjectedFrame == <<4, 14, 12, 1, 1, 16, 0, 6, 103, 36, 6, 15, 0, 150, 65>>

\* the command callers submit: Read_Local_Version_Information (opcode
\* 0x1001, little endian, then the parameter length), the command the frame
\* written to s_inject is the reply to
Commands == { <<1, 16, 0>> }

\* the subscriber the application of the stream-bridge core registers
\* before it connects
MacInitialRegistries == { << Sub(<<"Q", 1>>, "is_event") >> }

InitMac ==
    \E regs \in MacInitialRegistries, cbs \in InitialCallbacks :
        InitWith("macos", "mac", FALSE, TRUE, regs, cbs)

\* macOSCore._setupSockets: the listener is bound and listens, the client
\* socket stays unconnected; bind raises when the port is taken
mac_setupSockets(bind_ok) ==
    IF ~bind_ok
    THEN /\ connect_ret' = "raised"
         /\ s_snoop' = "listener"
         /\ socks' = [socks EXCEPT !["listener"] = "unbound"]
         /\ UNCHANGED s_inject
    ELSE /\ connect_ret' = "True"
         /\ s_snoop' = "listener"
         /\ s_inject' = "client"
         /\ socks' = [socks EXCEPT !["listener"] = "listening",
                                   !["client"] = "unbound"]

\* connect of the stream-bridge core: local_connect returns True whenever
\* _setupSockets returns; both threads are started
MacConnect ==
    /\ core = "macos"
    /\ connect_ret = None
    /\ \E bind_ok \in BOOLEAN : mac_setupSockets(bind_ok)
    /\ recv_pc' = IF connect_ret' = "True" THEN "loop" ELSE recv_pc
    /\ send_pc' = IF connect_ret' = "True" THEN "loop" ELSE send_pc
    /\ UNCHANGED <<cfgVars, opVars, exit_requested, btsnooplog_file, regVars, queues,
                   record_data, record, qi, ci, now, reads, device_list,
                   sendQueue, injected, task, recvQueue, calls, histVars,
                   hdr_calls>>

(***************************************************************************)
(* Receive Engine of the stream-bridge core: macOSCore._recvThreadFunc.    *)
(***************************************************************************)
MacRecvLoop ==
    /\ core = "macos"
    /\ recv_pc = "loop"
    /\ recv_pc' = IF exit_requested THEN "terminated" ELSE "read"
    /\ UNCHANGED <<cfgVars, opVars, connect_ret, exit_requested, sockVars,
                   btsnooplog_file, regVars, queues, record_data, record, qi,
                   ci, now, reads, device_list, sendVars, histVars, hdr_calls>>

\* accept raises socket.timeout: continue, the loop condition is read again
\* and accept is entered again
MacRecvTimeout ==
    /\ core = "macos"
    /\ recv_pc = "read"
    /\ CanRead
    /\ in_recv' = FALSE
    /\ recv_pc' = IF exit_requested THEN "terminated" ELSE "read"
    /\ UNCHANGED <<cfgVars, up_calls, tdlog, shutdown_at, hdr_writers, pass_subs, connect_ret, exit_requested, sockVars,
                   btsnooplog_file, regVars, queues, record_data, record, qi,
                   ci, now, reads, device_list, sendVars, histVars, hdr_calls>>

\* accept or recv raises anything else: nothing catches it, the thread ends
MacRecvError ==
    /\ core = "macos"
    /\ recv_pc = "read"
    /\ in_recv' = FALSE
    /\ recv_pc' = "crashed"
    /\ UNCHANGED <<cfgVars, up_calls, tdlog, shutdown_at, hdr_writers, pass_subs, connect_ret, exit_requested, sockVars,
                   btsnooplog_file, regVars, queues, record_data, record, qi,
                   ci, now, reads, device_list, sendVars, histVars, hdr_calls>>

\* the record is built from whatever recv returned and the fan-out starts
MacBuild(data) ==
    /\ record_data' = data
    /\ record' = << MacRecord(data) >>
    /\ rxlog' = Append(rxlog, [data |-> data, record |-> MacRecord(data),
                               waiting |-> {}])
    /\ recv_pc' = "fanout"
    /\ qi' = 1

\* accept returns a connection of the external mechanism, recv the packet
\* it wrote
MacRecvData ==
    /\ core = "macos"
    /\ recv_pc = "read"
    /\ CanRead
    /\ in_recv' = FALSE
    /\ reads < MaxAccepts
    /\ reads' = reads + 1
    /\ \E data \in Packets \ { <<>> } : MacBuild(data)
    /\ UNCHANGED <<cfgVars, up_calls, tdlog, shutdown_at, hdr_writers, pass_subs, connect_ret, exit_requested, sockVars,
                   btsnooplog_file, regVars, queues, ci, now, device_list,
                   sendVars, putlog, droplog, cblog, hdr_calls>>

\* accept returns a connection and recv returns zero bytes (the peer closed
\* it): the length is not looked at, hci.parse_hci_packet is given the empty
\* string and either returns a packet value, of which the record is built,
\* or raises, which nothing catches
MacRecvEmpty ==
    /\ core = "macos"
    /\ recv_pc = "read"
    /\ CanRead
    /\ in_recv' = FALSE
    /\ reads < MaxAccepts
    /\ reads' = reads + 1
    /\ \/ MacBuild(<<>>)
       \/ /\ record_data' = <<>>
          /\ recv_pc' = "crashed"
          /\ UNCHANGED <<record, rxlog, qi>>
    /\ UNCHANGED <<cfgVars, up_calls, tdlog, shutdown_at, hdr_writers, pass_subs,
                   connect_ret, exit_requested, sockVars, btsnooplog_file,
                   regVars, queues, ci, now, device_list, sendVars, putlog,
                   droplog, cblog, hdr_calls>>

\* accept returns the connection of s_inject, recv the frame written to it
MacRecvInjected ==
    /\ core = "macos"
    /\ recv_pc = "read"
    /\ CanRead
    /\ in_recv' = FALSE
    /\ socks["client"] = "connecting"
    /\ socks' = [socks EXCEPT !["client"] = "connected"]
    /\ MacBuild(injected)
    /\ injected' = <<>>
    /\ UNCHANGED <<cfgVars, up_calls, tdlog, shutdown_at, hdr_writers, pass_subs, connect_ret, exit_requested, s_snoop, s_inject,
                   btsnooplog_file, regVars, queues, ci, now, reads,
                   device_list, sendQueue, send_pc, task, recvQueue, calls,
                   putlog, droplog, cblog, hdr_calls>>

\* the callers whose command is on the wire and who still wait for a reply
WaitingCallers == { k \in 1..Len(calls) : calls[k].pc = "wait" /\ calls[k].sent }

\* one step of the queue loop: the filter_function is not consulted
\* (history: the end of the pass notes who was waiting for a reply)
MacRecvFanout ==
    /\ core = "macos"
    /\ recv_pc = "fanout"
    /\ IF qi > Len(registeredHciRecvQueues)
       THEN /\ recv_pc' = "callbacks"
            /\ ci' = 1
            /\ rxlog' = [rxlog EXCEPT ![Len(rxlog)].waiting = WaitingCallers]
            /\ UNCHANGED <<qi, queues, putlog, droplog>>
       ELSE /\ PutNoWait(registeredHciRecvQueues[qi].queue)
            /\ qi' = qi + 1
            /\ UNCHANGED <<recv_pc, ci, rxlog>>
    /\ UNCHANGED <<cfgVars, opVars, connect_ret, exit_requested, sockVars,
                   btsnooplog_file, regVars, record_data, record, now, reads,
                   device_list, sendVars, cblog, hdr_calls>>

MacRecvCallback ==
    /\ core = "macos"
    /\ recv_pc = "callbacks"
    /\ CallbackStep
    /\ UNCHANGED <<cfgVars, opVars, connect_ret, exit_requested, sockVars,
                   btsnooplog_file, regVars, queues, record_data, record, qi,
                   now, reads, device_list, sendVars, rxlog, putlog, droplog,
                   hdr_calls>>

(***************************************************************************)
(* Teardown of the stream-bridge core.                                     *)
(***************************************************************************)
\* macOSCore._teardownSockets: s_inject, then s_snoop, each closed and
\* cleared if it is not None
mac_teardownSockets ==
    /\ socks' = [s \in SockIds |->
                    IF s \in {s_inject, s_snoop} THEN "closed" ELSE socks[s]]
    /\ tdlog' = Append(tdlog,
          [closed |-> (IF s_inject # None THEN <<s_inject>> ELSE <<>>)
                      \o (IF s_snoop # None THEN <<s_snoop>> ELSE <<>>),
           handle |-> connect_ret = "True"])
    /\ s_inject' = None
    /\ s_snoop' = None

\* _teardownSockets called by another thread, at any time
MacTeardown ==
    /\ core = "macos"
    /\ Len(tdlog) < MaxTeardowns
    /\ mac_teardownSockets
    /\ in_recv' \in InRecvAfterTeardown
    /\ UNCHANGED <<cfgVars, connect_ret, exit_requested, btsnooplog_file,
                   regVars, queues, recvVars, device_list, sendVars, histVars,
                   hdr_calls, up_calls, shutdown_at, hdr_writers, pass_subs>>

(***************************************************************************)
(* Command submission: macOSCore.sendH4 and the callers of the send queue. *)
(***************************************************************************)
\* a caller blocked in queue.get: its reply queue Queue.Queue(1), its result
\* (sent: history, whether the Send Engine has transmitted the command)
Call(kind, data) ==
    [kind |-> kind, data |-> data, pc |-> "wait", queue |-> <<>>, ret |-> <<>>,
     sent |-> FALSE]

\* sendQueue.put(task, timeout): the task goes in, or Full ends the call
SubmitTask(kind, data, filter) ==
    IF Len(sendQueue) < queue_size
    THEN /\ sendQueue' = Append(sendQueue,
                [h4type |-> 1, data |-> data, queue |-> Len(calls) + 1,
                 filter |-> filter])
         /\ calls' = Append(calls, Call(kind, data))
    ELSE /\ calls' = Append(calls, [Call(kind, data) EXCEPT !.pc = "returned"])
         /\ UNCHANGED sendQueue

\* sendH4(h4type, data): the task carries the reply queue and no filter
SendH4 ==
    /\ core = "macos"
    /\ Len(calls) < MaxSends
    /\ \A k \in 1..Len(calls) : calls[k].pc = "returned"
    /\ \E data \in Commands : SubmitTask("sendH4", data, None)
    /\ UNCHANGED <<cfgVars, opVars, connect_ret, exit_requested, sockVars,
                   btsnooplog_file, regVars, queues, recvVars, device_list,
                   injected, send_pc, task, recvQueue, histVars, hdr_calls>>

\* sendHciCommand: the task carries the reply queue and the filter that
\* recognises the reply to the command
sendHciCommand ==
    /\ core = "macos"
    /\ Len(calls) < MaxSends
    /\ \A k \in 1..Len(calls) : calls[k].pc = "returned"
    /\ \E data \in Commands : SubmitTask("filtered", data, FilterFor(data))
    /\ UNCHANGED <<cfgVars, opVars, connect_ret, exit_requested, sockVars,
                   btsnooplog_file, regVars, queues, recvVars, device_list,
                   injected, send_pc, task, recvQueue, histVars, hdr_calls>>

\* another thread submits a command, with or without a filter, while an
\* earlier caller is still waiting for its reply
ConcurrentSend ==
    /\ core = "macos"
    /\ Len(calls) < MaxSends + MaxCallers - 1
    /\ LET inside == { k \in 1..Len(calls) : calls[k].pc = "wait" }
       IN  inside # {} /\ Cardinality(inside) < MaxCallers
    /\ \E data \in Commands :
          \/ SubmitTask("sendH4", data, None)
          \/ SubmitTask("filtered", data, FilterFor(data))
    /\ UNCHANGED <<cfgVars, opVars, connect_ret, exit_requested, sockVars,
                   btsnooplog_file, regVars, queues, recvVars, device_list,
                   injected, send_pc, task, recvQueue, histVars, hdr_calls>>

\* ret = queue.get(timeout=timeout); return ret
CallerGet ==
    /\ \E k \in 1..Len(calls) :
        /\ calls[k].pc = "wait"
        /\ Len(calls[k].queue) > 0
        /\ calls' = [calls EXCEPT ![k].pc = "returned",
                                  ![k].ret = << Head(calls[k].queue) >>,
                                  ![k].queue = Tail(@)]
    /\ UNCHANGED <<cfgVars, opVars, connect_ret, exit_requested, sockVars,
                   btsnooplog_file, regVars, queues, recvVars, device_list,
                   sendQueue, injected, send_pc, task, recvQueue, histVars,
                   hdr_calls>>

\* except Queue.Empty: return None
CallerTimeout ==
    /\ \E k \in 1..Len(calls) :
        /\ calls[k].pc = "wait"
        /\ Len(calls[k].queue) = 0
        /\ calls' = [calls EXCEPT ![k].pc = "returned"]
    /\ UNCHANGED <<cfgVars, opVars, connect_ret, exit_requested, sockVars,
                   btsnooplog_file, regVars, queues, recvVars, device_list,
                   sendQueue, injected, send_pc, task, recvQueue, histVars,
                   hdr_calls>>

(***************************************************************************)
(* Dispatch Registry.                                                      *)
(***************************************************************************)
(***************************************************************************)
(* Send Engine: macOSCore._sendThreadFunc.                                 *)
(***************************************************************************)
\* if queue != None and filter_function != None
ExpectsResponse(t) == t.queue # 0 /\ t.filter # None

\* a loop condition that does not read the flag
MacSendLoop_IgnoresFlag ==
    /\ core = "macos"
    /\ send_pc = "loop"
    /\ send_pc' = "get"
    /\ UNCHANGED <<cfgVars, opVars, connect_ret, exit_requested, sockVars,
                   btsnooplog_file, regVars, queues, recvVars, device_list,
                   sendQueue, injected, task, recvQueue, calls, histVars,
                   hdr_calls>>

\* while not self.exit_requested
MacSendLoop ==
    /\ core = "macos"
    /\ send_pc = "loop"
    /\ send_pc' = IF exit_requested THEN "terminated" ELSE "get"
    /\ UNCHANGED <<cfgVars, opVars, connect_ret, exit_requested, sockVars,
                   btsnooplog_file, regVars, queues, recvVars, device_list,
                   sendQueue, injected, task, recvQueue, calls, histVars,
                   hdr_calls>>

\* task = self.sendQueue.get(timeout=0.5)
MacSendGet ==
    /\ core = "macos"
    /\ send_pc = "get"
    /\ Len(sendQueue) > 0
    /\ task' = << Head(sendQueue) >>
    /\ sendQueue' = Tail(sendQueue)
    /\ send_pc' = "register"
    /\ UNCHANGED <<cfgVars, opVars, connect_ret, exit_requested, sockVars,
                   btsnooplog_file, regVars, queues, recvVars, device_list,
                   injected, recvQueue, calls, histVars, hdr_calls>>

\* except Queue.Empty: continue, the loop condition is read again and get
\* is entered again
MacSendGetEmpty ==
    /\ core = "macos"
    /\ send_pc = "get"
    /\ Len(sendQueue) = 0
    /\ send_pc' = IF exit_requested THEN "terminated" ELSE "get"
    /\ UNCHANGED <<cfgVars, opVars, connect_ret, exit_requested, sockVars,
                   btsnooplog_file, regVars, queues, recvVars, device_list,
                   sendQueue, injected, task, recvQueue, calls, histVars,
                   hdr_calls>>

\* the step before the transmission without the registration
MacSendRegister_Skips ==
    /\ core = "macos"
    /\ send_pc = "register"
    /\ send_pc' = "transmit"
    /\ UNCHANGED <<cfgVars, opVars, connect_ret, exit_requested, sockVars,
                   btsnooplog_file, regVars, queues, recvVars, device_list,
                   sendQueue, injected, task, recvQueue, calls, histVars,
                   hdr_calls>>

\* if the caller expects a response: recvQueue = Queue.Queue(1) is registered
MacSendRegister ==
    /\ core = "macos"
    /\ send_pc = "register"
    /\ IF ExpectsResponse(task[1])
       THEN /\ recvQueue' = <<"R", task[1].queue>>
            /\ registeredHciRecvQueues' =
                  registerHciRecvQueue(registeredHciRecvQueues,
                                       <<"R", task[1].queue>>, task[1].filter)
       ELSE UNCHANGED <<recvQueue, registeredHciRecvQueues>>
    /\ send_pc' = "transmit"
    /\ UNCHANGED <<cfgVars, opVars, connect_ret, exit_requested, sockVars,
                   btsnooplog_file, registeredHciCallbacks, queues, recvVars,
                   device_list, sendQueue, injected, task, calls, histVars,
                   hdr_calls>>

\* s_inject is connected to the listener on first use, then sendall writes
\* the frame; afterwards the response is awaited, or the task is done
MacSendTransmit ==
    /\ core = "macos"
    /\ send_pc = "transmit"
    /\ s_inject # None
    /\ socks' = [socks EXCEPT !["client"] =
                    IF @ = "unbound" THEN "connecting" ELSE @]
    /\ injected' = IF socks["client"] = "connected" THEN injected
                   ELSE injected \o InjectedFrame
    /\ send_pc' = IF ExpectsResponse(task[1]) THEN "wait" ELSE "loop"
    /\ calls' = [calls EXCEPT ![task[1].queue].sent = TRUE]
    /\ UNCHANGED <<cfgVars, opVars, connect_ret, exit_requested, s_snoop, s_inject,
                   btsnooplog_file, regVars, queues, recvVars, device_list,
                   sendQueue, task, recvQueue, histVars, hdr_calls>>

\* connect or sendall raises: nothing catches it, the thread ends
MacSendTransmitError ==
    /\ core = "macos"
    /\ send_pc = "transmit"
    /\ send_pc' = "crashed"
    /\ UNCHANGED <<cfgVars, opVars, connect_ret, exit_requested, sockVars,
                   btsnooplog_file, regVars, queues, recvVars, device_list,
                   sendQueue, injected, task, recvQueue, calls, histVars,
                   hdr_calls>>

\* the arrival branch without its unregisterHciRecvQueue
MacSendResponse_KeepsSlot ==
    /\ core = "macos"
    /\ send_pc = "wait"
    /\ Len(queues[recvQueue]) > 0
    /\ queues' = [queues EXCEPT ![recvQueue] = Tail(@)]
    /\ calls' = [calls EXCEPT ![task[1].queue].queue =
                    Append(@, Head(queues[recvQueue]).hcipkt.data)]
    /\ send_pc' = "loop"
    /\ UNCHANGED <<cfgVars, opVars, connect_ret, exit_requested, sockVars,
                   btsnooplog_file, regVars, recvVars, device_list,
                   sendQueue, injected, task, recvQueue, histVars, hdr_calls>>

\* record = recvQueue.get(timeout=10); data = record[0].data;
\* queue.put(data); self.unregisterHciRecvQueue(recvQueue)
MacSendResponse ==
    /\ core = "macos"
    /\ send_pc = "wait"
    /\ Len(queues[recvQueue]) > 0
    /\ queues' = [queues EXCEPT ![recvQueue] = Tail(@)]
    /\ calls' = [calls EXCEPT ![task[1].queue].queue =
                    Append(@, Head(queues[recvQueue]).hcipkt.data)]
    /\ registeredHciRecvQueues' =
          unregisterHciRecvQueue(registeredHciRecvQueues, recvQueue)
    /\ send_pc' = "loop"
    /\ UNCHANGED <<cfgVars, opVars, connect_ret, exit_requested, sockVars,
                   btsnooplog_file, registeredHciCallbacks, recvVars,
                   device_list, sendQueue, injected, task, recvQueue,
                   histVars, hdr_calls>>

\* the timeout branch without its unregisterHciRecvQueue
MacSendNoResponse_KeepsSlot ==
    /\ core = "macos"
    /\ send_pc = "wait"
    /\ Len(queues[recvQueue]) = 0
    /\ send_pc' = "loop"
    /\ UNCHANGED <<cfgVars, opVars, connect_ret, exit_requested, sockVars,
                   btsnooplog_file, regVars, queues, recvVars, device_list,
                   sendQueue, injected, task, recvQueue, calls, histVars,
                   hdr_calls>>

\* except Queue.Empty: the slot is unregistered, continue
MacSendNoResponse ==
    /\ core = "macos"
    /\ send_pc = "wait"
    /\ Len(queues[recvQueue]) = 0
    /\ registeredHciRecvQueues' =
          unregisterHciRecvQueue(registeredHciRecvQueues, recvQueue)
    /\ send_pc' = "loop"
    /\ UNCHANGED <<cfgVars, opVars, connect_ret, exit_requested, sockVars,
                   btsnooplog_file, registeredHciCallbacks, queues, recvVars,
                   device_list, sendQueue, injected, task, recvQueue, calls,
                   histVars, hdr_calls>>

NextMac ==
    \/ MacConnect
    \/ MacRecvLoop
    \/ MacRecvTimeout
    \/ MacRecvError
    \/ MacRecvData
    \/ MacRecvInjected
    \/ MacRecvFanout
    \/ MacRecvCallback
    \/ SendH4
    \/ sendHciCommand
    \/ CallerGet
    \/ CallerTimeout
    \/ MacSendLoop
    \/ MacSendGet
    \/ MacSendGetEmpty
    \/ MacSendRegister
    \/ MacSendTransmit
    \/ MacSendTransmitError
    \/ MacSendResponse
    \/ MacSendNoResponse

SpecMac == InitMac /\ [][NextMac]_vars

\* the stream-bridge core with callers whose timeouts expire: queue.get in
\* sendH4 returns as soon as an item is there, or raises Empty in the end
FairSpecMac ==
    SpecMac /\ WF_vars(CallerGet) /\ WF_vars(CallerTimeout)

\* the stream-bridge core with callers in several threads
NextCallers ==
    \/ MacConnect
    \/ MacRecvLoop
    \/ MacRecvInjected
    \/ MacRecvFanout
    \/ MacRecvCallback
    \/ SendH4
    \/ sendHciCommand
    \/ ConcurrentSend
    \/ CallerGet
    \/ CallerTimeout
    \/ MacSendLoop
    \/ MacSendGet
    \/ MacSendGetEmpty
    \/ MacSendRegister
    \/ MacSendTransmit
    \/ MacSendTransmitError
    \/ MacSendResponse
    \/ MacSendNoResponse

SpecCallers == InitMac /\ [][NextCallers]_vars

(***************************************************************************)
(* Device enumeration on its own: the first call of getHciDeviceList, for   *)
(* every flag bitmap the kernel may report.                                *)
(***************************************************************************)
InitFlags ==
    InitWith("hci", "hci0", FALSE, TRUE,
             << Sub(<<"Q", 1>>, "is_event") >>, <<"cb_ok">>)

GetHciDeviceList ==
    /\ device_list = <<>>
    /\ \E sock_ok \in BOOLEAN, flags \in 0..(Pow2(MaxFlagBits) - 1) :
          device_list' = getHciDeviceList(sock_ok, << KDev(0, "hci0", flags) >>)
    /\ UNCHANGED <<cfgVars, opVars, connect_ret, exit_requested, sockVars,
                   btsnooplog_file, regVars, queues, recvVars, sendVars,
                   histVars, hdr_calls>>

NextFlags == GetHciDeviceList

SpecFlags == InitFlags /\ [][NextFlags]_vars

(***************************************************************************)
(* Device activation on its own: explicit calls of bringHciDeviceUp.       *)
(***************************************************************************)
NextBringUp == BringHciDeviceUp

SpecBringUp == InitFlags /\ [][NextBringUp]_vars

(***************************************************************************)
(* Both cores.                                                             *)
(***************************************************************************)
Init == InitHci \/ InitMac

Next == NextHci \/ NextMac

Spec == Init /\ [][Next]_vars

(***************************************************************************)
(* Sessions whose endpoints another thread tears down: the raw-HCI core    *)
(* with its Receive Engine, and both cores.                                *)
(***************************************************************************)
\* the steps of the receive thread of the raw-HCI core
HciRecvThread ==
    \/ HciRecvLoop
    \/ HciRecvTimeout
    \/ HciRecvData
    \/ HciRecvLog
    \/ HciRecvFanout
    \/ HciRecvCallback

\* the raw-HCI core with threads that call _writeBTSnoopHeader while the
\* session is established and the Receive Engine appends frames
NextHeaderRace ==
    \/ HeaderWriterCheck
    \/ HeaderWriterWrite
    \/ HciConnect
    \/ HciRecvThread

SpecHeaderRace == InitHci /\ [][NextHeaderRace]_vars

\* the raw-HCI core with consumers that register and unregister their
\* queues while the Receive Engine runs
NextRegistry ==
    \/ HciConnect
    \/ HciRecvThread
    \/ RegisterConsumer
    \/ UnregisterConsumer

SpecRegistry == InitHci /\ [][NextRegistry]_vars

\* the steps of the receive thread of the stream-bridge core
MacRecvThread ==
    \/ MacRecvLoop
    \/ MacRecvTimeout
    \/ MacRecvData
    \/ MacRecvInjected
    \/ MacRecvFanout
    \/ MacRecvCallback

\* both cores with reads that return zero bytes
NextEmptyRead ==
    \/ HciConnect
    \/ HciRecvThread
    \/ MacConnect
    \/ MacRecvLoop
    \/ MacRecvTimeout
    \/ MacRecvData
    \/ MacRecvEmpty
    \/ MacRecvFanout
    \/ MacRecvCallback

SpecEmptyRead == Init /\ [][NextEmptyRead]_vars

NextHciTeardown ==
    \/ HciConnect
    \/ HciRecvLoop
    \/ HciRecvTimeout
    \/ HciRecvError
    \/ HciRecvData
    \/ HciRecvLog
    \/ HciRecvFanout
    \/ HciRecvCallback
    \/ HciTeardown

SpecHciTeardown == InitHci /\ [][NextHciTeardown]_vars

\* the receive thread takes its next step in the end
FairSpecHciTeardown ==
    SpecHciTeardown /\ WF_vars(HciRecvThread \/ HciRecvError)

\* the stream-bridge core with the commands of sendH4 and the frames its
\* own Send Engine injects
NextMacTeardown ==
    \/ MacConnect
    \/ MacRecvLoop
    \/ MacRecvTimeout
    \/ MacRecvError
    \/ MacRecvInjected
    \/ MacRecvFanout
    \/ MacRecvCallback
    \/ SendH4
    \/ CallerTimeout
    \/ MacSendLoop
    \/ MacSendGet
    \/ MacSendGetEmpty
    \/ MacSendRegister
    \/ MacSendTransmit
    \/ MacSendTransmitError
    \/ MacTeardown

NextTeardown == NextHciTeardown \/ NextMacTeardown

SpecTeardown == Init /\ [][NextTeardown]_vars

(***************************************************************************)
(* Shutdown: another thread sets the shared flag while the engines run.     *)
(* Reads and queue polls return or time out; they raise no other error.     *)
(***************************************************************************)
\* self.exit_requested = True, by the thread that asks for the shutdown
RequestShutdown ==
    /\ ~exit_requested
    /\ exit_requested' = TRUE
    /\ shutdown_at' = << Len(rxlog) >>
    /\ UNCHANGED <<cfgVars, up_calls, tdlog, in_recv, hdr_writers, pass_subs, connect_ret,
                   sockVars,
                   btsnooplog_file, regVars, queues, recvVars, device_list,
                   sendVars, histVars, hdr_calls>>

\* the steps of the send thread of the stream-bridge core
MacSendThread ==
    \/ MacSendLoop
    \/ MacSendGet
    \/ MacSendGetEmpty
    \/ MacSendRegister
    \/ MacSendTransmit
    \/ MacSendTransmitError
    \/ MacSendResponse
    \/ MacSendNoResponse

NextShutdown ==
    \/ RequestShutdown
    \/ HciConnect
    \/ HciRecvThread
    \/ MacConnect
    \/ MacRecvThread
    \/ MacSendThread
    \/ sendHciCommand

\* every thread that can take a step takes one in the end
FairSpecShutdown ==
    /\ Init /\ [][NextShutdown]_vars
    /\ WF_vars(HciRecvThread)
    /\ WF_vars(MacRecvThread)
    /\ WF_vars(MacSendThread)

(***************************************************************************)
(* Vocabulary of the properties.                                           *)
(***************************************************************************)
InSeq(x, seq) == \E j \in 1..Len(seq) : seq[j] = x

\* the subscription's predicate accepts the Record, or there is no predicate
Accepts(sub, rec) == sub.filter = None \/ ApplyFilter(sub.filter, rec)

\* how many entries of the registry the queue loop has passed for the m-th
\* Record of a raw-HCI session (the registry does not change there)
Handled(m) ==
    IF m < Len(rxlog) THEN Len(registeredHciRecvQueues)
    ELSE IF recv_pc = "log" THEN 0
    ELSE Min(qi - 1, Len(registeredHciRecvQueues))

\* every queue holds Records that were enqueued to it: the newest entries of
\* its history, oldest first
QueuesHoldEnqueued ==
    \A q \in QueueIds :
        /\ Len(queues[q]) <= Len(putlog[q])
        /\ \A j \in 1..Len(queues[q]) :
              queues[q][j] =
                 rxlog[putlog[q][Len(putlog[q]) - Len(queues[q]) + j]].record

\* the 16 bytes of the identification header, written out
HeaderBytes == <<98, 116, 115, 110, 111, 111, 112, 0, 0, 0, 0, 1, 0, 0, 3, 234>>

IsPrefix(a, b) == Len(a) <= Len(b) /\ SubSeq(b, 1, Len(a)) = a

RECURSIVE ParseFrames(_)
\* a reader of the capture log: the frames of the bytes after the header,
\* each a 24-byte big-endian record header and inc_len bytes of payload;
\* a truncated frame ends the list with a frame marked bad
ParseFrames(b) ==
    IF Len(b) = 0 THEN <<>>
    ELSE IF Len(b) < 24 \/ Len(b) < 24 + u32be(SubSeq(b, 5, 8))
    THEN << [bad |-> TRUE] >>
    ELSE LET inc == u32be(SubSeq(b, 5, 8))
         IN  << [ bad      |-> FALSE,
                  orig_len |-> u32be(SubSeq(b, 1, 4)),
                  inc_len  |-> inc,
                  flags    |-> u32be(SubSeq(b, 9, 12)),
                  drops    |-> u32be(SubSeq(b, 13, 16)),
                  payload  |-> SubSeq(b, 25, 24 + inc) ] >>
             \o ParseFrames(SubSeq(b, 25 + inc, Len(b)))

\* the frame a reader must find for the m-th Record of the session
ExpectedFrame(m) ==
    [ bad      |-> FALSE,
      orig_len |-> rxlog[m].record.orig_len,
      inc_len  |-> rxlog[m].record.inc_len,
      flags    |-> rxlog[m].record.flags,
      drops    |-> rxlog[m].record.drops,
      payload  |-> rxlog[m].data ]

\* the Records whose frame the Receive Engine has written by now
Logged == IF recv_pc = "log" THEN Len(rxlog) - 1 ELSE Len(rxlog)

(***************************************************************************)
(* C1. Raw-HCI fan-out: once the queue loop has passed a subscription, a   *)
(* Record that was not dropped there for lack of room is in that           *)
(* subscription's queue history if and only if the subscription has no     *)
(* predicate or its predicate accepts the Record; queues that are not      *)
(* registered receive nothing.                                             *)
(***************************************************************************)
C1_FanOutExact ==
    /\ QueuesHoldEnqueued
    /\ \A m \in 1..Len(rxlog) : \A i \in 1..Handled(m) :
          LET sub == registeredHciRecvQueues[i]
          IN  /\ m \notin droplog[sub.queue] =>
                    (InSeq(m, putlog[sub.queue]) <=> Accepts(sub, rxlog[m].record))
              /\ m \in droplog[sub.queue] => Accepts(sub, rxlog[m].record)
    /\ \A q \in QueueIds :
          (\A i \in 1..Len(registeredHciRecvQueues) :
                registeredHciRecvQueues[i].queue # q)
          => putlog[q] = <<>> /\ droplog[q] = {}

\* the pass is over: the subscription without predicate got the ACL packet,
\* the one that wants events only did not, and neither queue was full
C1_Witness ==
    /\ core = "hci"
    /\ recv_pc = "callbacks"
    /\ Len(registeredHciRecvQueues) = 2
    /\ rxlog[Len(rxlog)].record.hcipkt.h4type = 2
    /\ InSeq(Len(rxlog), putlog[<<"Q", 1>>])
    /\ ~InSeq(Len(rxlog), putlog[<<"Q", 2>>])
    /\ Len(rxlog) \notin droplog[<<"Q", 2>>]
    /\ Len(queues[<<"Q", 2>>]) < Capacity(<<"Q", 2>>)

(***************************************************************************)
(* C5. Header write is idempotent when called one call after the other:    *)
(* two calls of _writeBTSnoopHeader on the empty capture file leave        *)
(* exactly the 16-byte identification header in it, and a call on a file   *)
(* that is not empty writes nothing.                                       *)
(***************************************************************************)
C5_TwoCallsOneHeader ==
    (write_btsnooplog /\ hdr_calls >= 2 /\ rxlog = <<>>)
        => btsnooplog_file = HeaderBytes

C5_CallOnNonEmptyWritesNothing ==
    (hdr_calls' # hdr_calls /\ Len(btsnooplog_file) > 0)
        => btsnooplog_file' = btsnooplog_file

C5_HeaderIdempotent ==
    /\ []C5_TwoCallsOneHeader
    /\ [][C5_CallOnNonEmptyWritesNothing]_vars

\* two calls in a row on the empty file, before anything else wrote to it
C5_Witness ==
    /\ write_btsnooplog
    /\ hdr_calls = 2
    /\ connect_ret = None
    /\ btsnooplog_file = HeaderBytes

(***************************************************************************)
(* C6. With log capture enabled and the session established, the capture   *)
(* log is the 16-byte header followed by one frame for each non-empty      *)
(* packet processed so far, in the order received, each frame with the     *)
(* lengths, flags, drop count and raw bytes of its packet; the file only   *)
(* ever grows at its end.                                                  *)
(***************************************************************************)
C6_LogIsHeaderThenFrames ==
    (write_btsnooplog /\ connect_ret = "True") =>
        /\ IsPrefix(HeaderBytes, btsnooplog_file)
        /\ ParseFrames(SubSeq(btsnooplog_file, 17, Len(btsnooplog_file)))
              = [m \in 1..Logged |-> ExpectedFrame(m)]

C6_LogOnlyGrows == IsPrefix(btsnooplog_file, btsnooplog_file')

C6_CaptureLogRoundTrip ==
    /\ []C6_LogIsHeaderThenFrames
    /\ [][C6_LogOnlyGrows]_vars

\* two packets of different lengths are in the log
C6_Witness ==
    /\ write_btsnooplog
    /\ Len(rxlog) = 2
    /\ recv_pc = "fanout"
    /\ Len(rxlog[1].data) # Len(rxlog[2].data)
    /\ Len(btsnooplog_file) = 16 + 24 + Len(rxlog[1].data) + 24 + Len(rxlog[2].data)

(***************************************************************************)
(* C10. The flags text of a device is "DOWN" exactly when the bitmap is 0, *)
(* and otherwise it is the names of the set bits among the ten of the      *)
(* table, bit 0 first, separated by single spaces.                         *)
(***************************************************************************)
BitSet(n, i) == (n \div Pow2(i)) % 2 = 1

RECURSIVE NamesFromBit(_, _)
\* the names of the table for the set bits i .. 9 of n
NamesFromBit(n, i) ==
    IF i > 9 THEN <<>>
    ELSE (IF BitSet(n, i) THEN << FlagNames[i + 1] >> ELSE <<>>)
         \o NamesFromBit(n, i + 1)

C10_FlagsText ==
    \A d \in 1..Len(device_list) :
        /\ device_list[d].dev_flags_str = "DOWN" <=> device_list[d].dev_flags = 0
        /\ device_list[d].dev_flags # 0 =>
              device_list[d].dev_flags_str
                 = Join(" ", NamesFromBit(device_list[d].dev_flags, 0))

\* bits 0, 2 and 9 set, and bit 10 which is outside the table
C10_Witness ==
    /\ Len(device_list) = 1
    /\ device_list[1].dev_flags = 1 + 4 + 512 + 1024
    /\ device_list[1].dev_flags_str = "UP RUNNING RESET"

(***************************************************************************)
(* C2. Stream-bridge fan-out: a Record is in a subscription's queue        *)
(* history only if the subscription has no predicate or its predicate      *)
(* accepts the Record.                                                     *)
(***************************************************************************)
\* the predicate queue q is registered with: the consumers' from the
\* registry, the Pending Response Slot's from the task it was created for
FilterOf(q) ==
    IF q \in ReplyQueues
    THEN FilterFor(calls[q[2]].data)
    ELSE LET i == CHOOSE i \in 1..Len(registeredHciRecvQueues) :
                     registeredHciRecvQueues[i].queue = q
         IN  registeredHciRecvQueues[i].filter

C2_OnlyAcceptedEnqueued ==
    \A q \in QueueIds : \A j \in 1..Len(putlog[q]) :
        Accepts(Sub(q, FilterOf(q)), rxlog[putlog[q][j]].record)

(***************************************************************************)
(* C3. A full queue stops nothing: a Record is dropped for a subscription  *)
(* only when its queue is at capacity, the drop leaves that queue as it    *)
(* was and the loop moves on to the next subscription; every consumer      *)
(* subscription the loop has passed, that accepts the Record and for which *)
(* it was not dropped, has received it.                                    *)
(***************************************************************************)
\* the consumers' subscriptions: they are registered before the session
\* and head the registry throughout
NumConsumers ==
    Len(SelectSeq(registeredHciRecvQueues, LAMBDA e : e.queue \in ConsumerQueues))

HandledConsumers(m) ==
    IF m < Len(rxlog) THEN NumConsumers
    ELSE IF recv_pc = "log" THEN 0
    ELSE Min(qi - 1, NumConsumers)

C3_DropLeavesQueueAndLoop ==
    \A q \in QueueIds :
        droplog'[q] # droplog[q] =>
            /\ Len(queues[q]) = Capacity(q)
            /\ queues'[q] = queues[q]
            /\ recv_pc' = "fanout"
            /\ qi' = qi + 1

C3_OthersStillReceive ==
    \A m \in 1..Len(rxlog) : \A i \in 1..HandledConsumers(m) :
        LET sub == registeredHciRecvQueues[i]
        IN  (Accepts(sub, rxlog[m].record) /\ m \notin droplog[sub.queue])
                => InSeq(m, putlog[sub.queue])

C3_Backpressure ==
    /\ [][C3_DropLeavesQueueAndLoop]_vars
    /\ []C3_OthersStillReceive
    /\ []QueuesHoldEnqueued

\* the second Record was dropped for the full first queue and enqueued to
\* the second one in the same pass, and a third Record was processed later
C3_Witness ==
    /\ Len(rxlog) = 3
    /\ 2 \in droplog[<<"Q", 1>>]
    /\ InSeq(2, putlog[<<"Q", 2>>])
    /\ recv_pc = "callbacks"

(***************************************************************************)
(* C4. A callback that raises does not end the Receive Engine.             *)
(***************************************************************************)
\* the thread ended in the callback loop, in a callback that raises
EndedInCallback ==
    /\ recv_pc = "crashed"
    /\ ci >= 1
    /\ ci <= Len(registeredHciCallbacks)
    /\ registeredHciCallbacks[ci] = "cb_raise"
    /\ Len(cblog) > 0
    /\ cblog[Len(cblog)] = <<ci, Len(rxlog)>>

C4_CallbackFailureIsolated == ~EndedInCallback

(***************************************************************************)
(* C7. Every Record built from n > 0 raw bytes has original_length =       *)
(* captured_length = n, flags = 0 and drop_count = 0, and with log capture *)
(* enabled its frame of 24 + n bytes is in the log once it is written.     *)
(***************************************************************************)
RECURSIVE FrameBytes(_)
\* 24 + n summed over the first m Records
FrameBytes(m) == IF m = 0 THEN 0 ELSE FrameBytes(m - 1) + 24 + Len(rxlog[m].data)

C7_RecordLengths ==
    /\ \A m \in 1..Len(rxlog) :
          Len(rxlog[m].data) > 0 =>
              /\ rxlog[m].record.orig_len = Len(rxlog[m].data)
              /\ rxlog[m].record.inc_len = Len(rxlog[m].data)
              /\ rxlog[m].record.flags = 0
              /\ rxlog[m].record.drops = 0
    /\ (write_btsnooplog /\ Len(rxlog) > 0 /\ recv_pc # "log") =>
          Len(btsnooplog_file) >= FrameBytes(Len(rxlog))

(***************************************************************************)
(* C8. A sendH4 call to which no matching Record arrives returns, and      *)
(* returns an empty result; whenever the Send Engine is done with a task   *)
(* (it is back at the head of its loop or has terminated) the registry     *)
(* holds no Pending Response Slot.                                         *)
(***************************************************************************)
NoMatchArrived(k) ==
    \A m \in 1..Len(rxlog) : ~IsReplyTo(calls[k].data, rxlog[m].record)

C8_EmptyResult ==
    \A k \in 1..Len(calls) :
        (calls[k].kind = "sendH4" /\ calls[k].pc = "returned" /\ NoMatchArrived(k))
            => calls[k].ret = <<>>

C8_NoResidualSlot ==
    send_pc \in {"loop", "get", "terminated"} =>
        \A i \in 1..Len(registeredHciRecvQueues) :
            registeredHciRecvQueues[i].queue \notin ReplyQueues

C9_MatchedReplyReturned ==
    \A k \in 1..Len(calls) : \A m \in 1..Len(rxlog) :
        ( /\ calls[k].kind = "sendH4"
          /\ calls[k].pc = "returned"
          /\ k \in rxlog[m].waiting
          /\ IsReplyTo(calls[k].data, rxlog[m].record) )
        => calls[k].ret = << rxlog[m].record.hcipkt.data >>

(***************************************************************************)
(* C11. bringHciDeviceUp accepts an id only when 0 <= id <= 16: for an id  *)
(* outside the range it returns False and asks nothing of the OS (no       *)
(* socket, no ioctl); for an id inside it issues exactly one HCIDEVUP      *)
(* ioctl, returns what the ioctl decided, and closes its socket.           *)
(***************************************************************************)
\* how many times x occurs in seq
Count(x, seq) == Cardinality({ j \in 1..Len(seq) : seq[j] = x })

C11_BringUpValidates ==
    \A c \in 1..Len(up_calls) :
        LET call == up_calls[c]
        IN  IF call.dev_id >= 0 /\ call.dev_id <= 16
            THEN /\ call.ret = call.ioctl_ok
                 /\ Count("ioctl HCIDEVUP", call.os) = 1
                 /\ Count("socket", call.os) = Count("close", call.os)
            ELSE /\ call.ret = FALSE
                 /\ call.os = <<>>

\* id 17 was rejected with nothing asked of the OS, then id 16 was accepted
\* and its ioctl failed
C11_Witness ==
    /\ Len(up_calls) = 2
    /\ up_calls[1].dev_id = 17
    /\ up_calls[1].ret = FALSE
    /\ up_calls[1].os = <<>>
    /\ up_calls[2].dev_id = 16
    /\ ~up_calls[2].ioctl_ok
    /\ up_calls[2].ret = FALSE
    /\ Count("ioctl HCIDEVUP", up_calls[2].os) = 1

(***************************************************************************)
(* C12. In the Receive Engine a read timeout changes nothing and the read  *)
(* is entered again; any other read error sets the shutdown flag and sends *)
(* the thread to its loop condition, from where it terminates without      *)
(* building, logging or fanning out another Record; the flag is never      *)
(* cleared and a terminated engine stays terminated.                       *)
(***************************************************************************)
\* the read ended with an error other than a timeout: no data came out of
\* it and the thread did not go back into the read
ReadFailed ==
    /\ recv_pc = "read"
    /\ recv_pc' \in {"loop", "crashed"}
    /\ reads' = reads
    /\ rxlog' = rxlog

\* the read timed out
ReadTimedOut ==
    /\ recv_pc = "read"
    /\ recv_pc' = "read"

C12_Step ==
    /\ ReadTimedOut => (exit_requested' = exit_requested /\ rxlog' = rxlog)
    /\ ReadFailed => (exit_requested' /\ recv_pc' = "loop")
    /\ (exit_requested /\ recv_pc = "loop") =>
          (recv_pc' \in {"loop", "terminated"} /\ rxlog' = rxlog
           /\ btsnooplog_file' = btsnooplog_file /\ putlog' = putlog)
    /\ exit_requested => exit_requested'
    /\ recv_pc = "terminated" => recv_pc' = "terminated"

C12_ReadErrorStops == [][C12_Step]_vars

(***************************************************************************)
(* C13. Teardown is idempotent: once _teardownSockets has been called on   *)
(* an established session, both endpoint fields are None and every socket  *)
(* of the session is closed; over all the calls each socket was closed     *)
(* exactly once, and every call after the first closed nothing.            *)
(***************************************************************************)
\* how many of the calls of _teardownSockets closed socket x
TimesClosed(x) ==
    Cardinality({ c \in 1..Len(tdlog) : InSeq(x, tdlog[c].closed) })

\* the calls made on an established session
HandleTeardowns == { c \in 1..Len(tdlog) : tdlog[c].handle }

C13_FieldsCleared ==
    HandleTeardowns # {} =>
        /\ s_snoop = None
        /\ s_inject = None
        /\ \A x \in SockIds : socks[x] \in {"absent", "closed"}

C13_ClosedExactlyOnce ==
    \A x \in SockIds :
        /\ TimesClosed(x) <= 1
        /\ socks[x] = "closed" <=> TimesClosed(x) = 1

C13_LaterCallsCloseNothing ==
    \A c \in HandleTeardowns : \A d \in HandleTeardowns :
        c < d => tdlog[d].closed = <<>>

UserChannelBindFailed == user_channel /\ socks["hci"] = "unbound"

\* the user-channel socket could not be opened
UserChannelSocketFailed ==
    user_channel /\ connect_ret # None /\ interface # None
    /\ socks["hci"] = "absent"

C14_BindFailureSurfaced ==
    (UserChannelBindFailed \/ UserChannelSocketFailed) =>
        /\ connect_ret # "True"
        /\ s_snoop = None
        /\ s_inject = None

(***************************************************************************)
(* C15. In every variant, once local_connect has returned True with log    *)
(* capture enabled, the capture log starts with the 16-byte identification *)
(* header; and whatever the log holds, it holds behind that header.        *)
(***************************************************************************)
C15_HeaderAfterEstablishment ==
    /\ (connect_ret = "True" /\ write_btsnooplog) =>
          IsPrefix(HeaderBytes, btsnooplog_file)
    /\ Len(btsnooplog_file) > 0 => IsPrefix(HeaderBytes, btsnooplog_file)

(***************************************************************************)
(* C16. For a task that expects a response the Pending Response Slot is in *)
(* the registry from before the frame is transmitted until the wait has    *)
(* ended: it is registered when the Send Engine is about to transmit and   *)
(* while it waits, the step that transmits finds it registered, the only   *)
(* step that removes it is the end of the wait, and the queue loop of the  *)
(* Receive Engine offers the Record in hand to the slot when it comes to   *)
(* it.                                                                     *)
(***************************************************************************)
\* queue q is in the registry
Registered(q) ==
    \E i \in 1..Len(registeredHciRecvQueues) :
        registeredHciRecvQueues[i].queue = q

\* the Send Engine holds a task that expects a response, at position pc
SendEngineAt(pcs) ==
    /\ core = "macos"
    /\ send_pc \in pcs
    /\ ExpectsResponse(task[1])

C16_SlotRegisteredWhileInFlight ==
    SendEngineAt({"transmit", "wait"}) =>
        /\ recvQueue = <<"R", task[1].queue>>
        /\ Registered(recvQueue)

C16_Step ==
    /\ \A k \in 1..Len(calls) :
          (~calls[k].sent /\ calls'[k].sent /\ calls[k].kind = "filtered")
              => (Registered(<<"R", k>>) /\ Registered(<<"R", k>>)')
    /\ \A q \in ReplyQueues :
          (Registered(q) /\ ~Registered(q)')
              => (send_pc = "wait" /\ send_pc' = "loop" /\ q = recvQueue)
    /\ (core = "macos" /\ recv_pc = "fanout" /\ qi' = qi + 1
         /\ registeredHciRecvQueues[qi].queue \in ReplyQueues)
          => LET q == registeredHciRecvQueues[qi].queue
             IN  \/ putlog'[q] = Append(putlog[q], Len(rxlog))
                 \/ droplog'[q] = droplog[q] \cup {Len(rxlog)}
                      /\ Len(queues[q]) = Capacity(q)

C16_RegisteredBeforeTransmit ==
    /\ []C16_SlotRegisteredWhileInFlight
    /\ [][C16_Step]_vars

\* the command is on the wire, the Send Engine waits, and the reply that was
\* fanned out meanwhile is in the slot
C16_Witness ==
    /\ SendEngineAt({"wait"})
    /\ calls[task[1].queue].sent
    /\ Len(queues[recvQueue]) = 1
    /\ IsReplyTo(task[1].data, queues[recvQueue][1])
    /\ Registered(recvQueue)

(***************************************************************************)
(* C17: in every reachable state at most one Pending Response Slot created  *)
(* by the Send Engine is in the Dispatch Registry; the Send Engine takes    *)
(* the next task off the send queue only when no slot is registered, and    *)
(* when it transmits a task no slot of another task is registered.          *)
(***************************************************************************)
PendingSlots ==
    { i \in 1..Len(registeredHciRecvQueues) :
        registeredHciRecvQueues[i].queue \in ReplyQueues }

C17_OneSlot == Cardinality(PendingSlots) <= 1

C17_Step ==
    /\ (Len(sendQueue') < Len(sendQueue)) => PendingSlots = {}
    /\ \A k \in 1..Len(calls) :
          (~calls[k].sent /\ calls'[k].sent)
              => \A q \in ReplyQueues : Registered(q) => q = <<"R", k>>

C17_AtMostOneSlot ==
    /\ []C17_OneSlot
    /\ [][C17_Step]_vars

\* two callers wait at once; the slot of the first task is gone, the second
\* task is on the wire and its slot is the only one registered
C17_Witness ==
    /\ Len(calls) >= 2
    /\ calls[1].kind = "filtered" /\ calls[1].sent
    /\ calls[2].kind = "filtered" /\ calls[2].sent
    /\ \E k \in 1..Len(calls) : k # 2 /\ calls[k].pc = "wait"
    /\ Registered(<<"R", 2>>)
    /\ ~Registered(<<"R", 1>>)

(***************************************************************************)
(* C18: once the shutdown flag is set, the Receive Engine and the Send      *)
(* Engine start no new iteration after the one in progress, fan out at most *)
(* the one Record that was being read, and, with fair scheduling and reads  *)
(* and polls that return or time out, both loops reach their terminated     *)
(* state (unless the iteration in progress ends the thread in a callback    *)
(* or a transmission that raises).                                          *)
(***************************************************************************)
Started(pc) == pc # "idle"

\* with the flag set, the loop condition leads out of the loop, no read and
\* no poll is entered, and at most the Record in flight is still received
C18_Step ==
    /\ (exit_requested /\ recv_pc = "loop" /\ recv_pc' # recv_pc)
          => recv_pc' = "terminated"
    /\ (exit_requested /\ send_pc = "loop" /\ send_pc' # send_pc)
          => send_pc' = "terminated"
    /\ (exit_requested /\ recv_pc # "read") => recv_pc' # "read"
    /\ (exit_requested /\ send_pc # "get") => send_pc' # "get"
    /\ (exit_requested /\ Len(rxlog') > Len(rxlog))
          => (shutdown_at # <<>> /\ Len(rxlog) = shutdown_at[1])

\* the receive loop is left: through its loop condition, or, as C4 describes,
\* in a callback of the Record in hand that raises
C18_RecvTerminates ==
    (exit_requested /\ Started(recv_pc))
        ~> (recv_pc = "terminated" \/ EndedInCallback)

\* the send loop is left: through its loop condition, or in the transmission
\* of the task in hand that raises
C18_SendTerminates ==
    (exit_requested /\ Started(send_pc))
        ~> (send_pc = "terminated" \/ (send_pc = "crashed" /\ task # <<>>))

C18_ShutdownObserved ==
    /\ [][C18_Step]_vars
    /\ C18_RecvTerminates
    /\ C18_SendTerminates

\* the flag was set while a read was in progress: that one Record was still
\* received, a command was sent, and both loops of the session terminated
C18_Witness ==
    /\ core = "macos"
    /\ shutdown_at # <<>>
    /\ Len(rxlog) = shutdown_at[1] + 1
    /\ Len(calls) > 0 /\ calls[1].sent
    /\ recv_pc = "terminated"
    /\ send_pc = "terminated"

(***************************************************************************)
(* C19: when another thread tears the Transport Handle down while the       *)
(* raw-HCI Receive Engine runs, every read the engine enters afterwards     *)
(* fails, the failure sets the shutdown flag and the loop is left through   *)
(* its condition; nothing is read from the cleared channel except by a read *)
(* that was already in progress, and the thread does not end in the read.   *)
(***************************************************************************)
TornDown == core = "hci" /\ s_snoop = None /\ Started(recv_pc)

C19_Step ==
    \* a read entered on the cleared channel ends in the fatal branch
    /\ (TornDown /\ recv_pc = "read" /\ ~in_recv /\ recv_pc' # recv_pc)
          => (exit_requested' /\ recv_pc' = "loop")
    \* a Record is built only by a read that was entered on an open channel
    /\ (core = "hci" /\ Len(rxlog') > Len(rxlog))
          => (s_snoop # None \/ in_recv)
    /\ (TornDown /\ in_recv /\ recv_pc' # recv_pc) => ~in_recv'
    \* the fatal branch leads out of the loop
    /\ (core = "hci" /\ exit_requested /\ recv_pc = "loop"
         /\ recv_pc' # recv_pc) => recv_pc' = "terminated"

\* the thread ends nowhere but after its loop or, as C4 describes, in a
\* callback of a Record in hand that raises
C19_NoDeathInRead ==
    (core = "hci" /\ recv_pc = "crashed") => EndedInCallback

C19_Stops ==
    TornDown ~> ((recv_pc = "terminated" /\ exit_requested) \/ EndedInCallback)

C20_EnqueuedInArrivalOrder ==
    \A q \in QueueIds :
        \A i, j \in 1..Len(putlog[q]) : i < j => putlog[q][i] < putlog[q][j]

\* an enqueue puts the Record in hand behind the ones that wait, and a
\* consumer takes the one that arrived first
C20_Step ==
    \A q \in ConsumerQueues :
        /\ (putlog'[q] # putlog[q])
              => /\ putlog'[q] = Append(putlog[q], Len(rxlog))
                 /\ queues'[q] = Append(queues[q], rxlog[Len(rxlog)].record)
        /\ (putlog'[q] = putlog[q] /\ queues'[q] # queues[q])
              => (queues[q] # <<>> /\ queues'[q] = Tail(queues[q]))

C20_ArrivalOrderKept ==
    /\ []C20_EnqueuedInArrivalOrder
    /\ []QueuesHoldEnqueued
    /\ [][C20_Step]_vars

\* the second Record was dropped on the full first queue; the first and the
\* third Record wait in the second queue, the first one in front
C20_Witness ==
    /\ core = "hci"
    /\ Len(rxlog) = 3
    /\ putlog[<<"Q", 1>>] = <<1, 3>>
    /\ 2 \in droplog[<<"Q", 1>>]
    /\ putlog[<<"Q", 2>>] = <<1, 3>>
    /\ queues[<<"Q", 2>>] = << rxlog[1].record, rxlog[3].record >>

(***************************************************************************)
(* C21: with log capture enabled, the frame of a Record is in the capture   *)
(* log before the Record is offered to a queue subscription or a callback:  *)
(* every Record that was enqueued or passed to a callback has its frame in  *)
(* the log, and had it there already when it was offered.                   *)
(***************************************************************************)
\* the m-th frame a reader finds in the bytes of the log is the frame of
\* the m-th Record
FrameInLog(m, file) ==
    LET frames == ParseFrames(SubSeq(file, 17, Len(file)))
    IN  /\ IsPrefix(HeaderBytes, file)
        /\ m <= Len(frames)
        /\ frames[m] = ExpectedFrame(m)

\* the Records that were enqueued to a queue or passed to a callback
Offered ==
    { m \in 1..Len(rxlog) :
        \/ \E q \in QueueIds : InSeq(m, putlog[q])
        \/ \E j \in 1..Len(cblog) : cblog[j][2] = m }

C21_OfferedAreLogged ==
    (core = "hci" /\ write_btsnooplog) =>
        \A m \in Offered : FrameInLog(m, btsnooplog_file)

\* the step that offers the Record in hand finds its frame in the log
C21_Step ==
    (core = "hci" /\ write_btsnooplog /\ (putlog' # putlog \/ cblog' # cblog))
        => FrameInLog(Len(rxlog), btsnooplog_file)

C21_LoggedBeforeOffered ==
    /\ []C21_OfferedAreLogged
    /\ [][C21_Step]_vars

\* two Records were logged; the first waits in a queue and went to the
\* callback, the second is being offered
C21_Witness ==
    /\ core = "hci"
    /\ write_btsnooplog
    /\ Len(rxlog) = 2
    /\ Offered = {1, 2}
    /\ InSeq(<<1, 1>>, cblog)
    /\ Len(queues[<<"Q", 1>>]) = 1
    /\ recv_pc = "callbacks"

(***************************************************************************)
(* C22: the capture-log header is written at most once per file under every *)
(* interleaving: concurrent calls of _writeBTSnoopHeader, or a call that    *)
(* runs while the Receive Engine appends a frame, never leave two headers   *)
(* in the file or a header behind a frame.                                  *)
(***************************************************************************)
\* the positions of the file at which the 16 bytes of the header stand
HeaderPositions(file) ==
    { i \in 1..Len(file) :
        /\ i + 15 <= Len(file)
        /\ SubSeq(file, i, i + 15) = HeaderBytes }

C22_HeaderAtMostOnce ==
    (core = "hci" /\ write_btsnooplog) =>
        HeaderPositions(btsnooplog_file) \subseteq {1}

(***************************************************************************)
(* C23: the fan-out tolerates changes of the registry made by other threads *)
(* while it iterates: a subscription that is registered for the whole       *)
(* duration of a pass of the queue loop is offered the Record of that pass  *)
(* exactly once, neither skipped nor offered twice.                         *)
(***************************************************************************)
\* how often the Record in hand was offered to queue q and taken or dropped
TimesOffered(q) ==
    Count(Len(rxlog), putlog[q])
      + (IF Len(rxlog) \in droplog[q] THEN 1 ELSE 0)

\* at the end of a pass: every subscription that was registered throughout
\* and accepts the Record was offered it once
C23_Step ==
    (core = "hci" /\ recv_pc = "fanout" /\ recv_pc' = "callbacks") =>
        \A i \in 1..Len(registeredHciRecvQueues) :
            LET sub == registeredHciRecvQueues[i]
            IN  (sub.queue \in pass_subs /\ Accepts(sub, record[1]))
                    => TimesOffered(sub.queue) = 1

C23_FanOutToleratesChanges == [][C23_Step]_vars

(***************************************************************************)
(* C24: a read of zero bytes in the Receive Engine changes nothing: no      *)
(* Record is built, no frame is appended to the capture log, no queue       *)
(* receives anything, no callback is called, and the engine stays RUNNING   *)
(* and reads again.                                                         *)
(***************************************************************************)
\* the step in which a read returns zero bytes
EmptyRead == reads' # reads /\ record_data' = <<>>

C24_Step ==
    EmptyRead =>
        /\ record' = record
        /\ rxlog' = rxlog
        /\ btsnooplog_file' = btsnooplog_file
        /\ queues' = queues
        /\ putlog' = putlog /\ droplog' = droplog
        /\ cblog' = cblog
        /\ exit_requested' = exit_requested
        /\ recv_pc' = "loop"

\* nothing that is fanned out later was built from zero bytes
C24_NoEmptyRecord == \A m \in 1..Len(rxlog) : Len(rxlog[m].data) > 0

C24_EmptyReadIgnored ==
    /\ [][C24_Step]_vars
    /\ []C24_NoEmptyRecord

====
